---- MODULE Spec2Model ----
(***************************************************************************)
(* Model of can_visual_grid.py (class CANVisualGrid): the ingestion thread *)
(* read_serial_data, the frame parser parse_can_message, the change        *)
(* tracking store (pid_list, current_values, change_times), the operator   *)
(* selection handled by handle_events / get_cell_at_position, the readers  *)
(* of the store in draw_info_panel, and the calibration fit                *)
(* calculate_temperature_formula.                                          *)
(*                                                                         *)
(* Text is modelled as a sequence of one-character strings, so that split, *)
(* strip, startswith and int(.., 16) are computed the way Python computes  *)
(* them.  Python lists indexed from 0 are functions over 0..n-1 where the  *)
(* source indexes them (the 8 data bytes) and sequences where it only      *)
(* appends, pops and iterates (pid_list, selected_cells).                  *)
(***************************************************************************)
EXTENDS Integers, Sequences, FiniteSets, TLC

(***************************************************************************)
(* Bounds of the model.                                                    *)
(***************************************************************************)
\* number of records (lines the parser accepts) the serial port delivers
MaxRecords == 2

(***************************************************************************)
(* Text helpers: str.strip, str.split, str.startswith, int(s, 16).         *)
(***************************************************************************)
Whitespace == {" ", "\t", "\r", "\n"}

RECURSIVE LStrip(_)
LStrip(s) ==
  IF s # <<>> /\ Head(s) \in Whitespace THEN LStrip(Tail(s)) ELSE s

RECURSIVE RStrip(_)
RStrip(s) ==
  IF s # <<>> /\ s[Len(s)] \in Whitespace
  THEN RStrip(SubSeq(s, 1, Len(s) - 1))
  ELSE s

Strip(s) == RStrip(LStrip(s))

StartsWith(s, p) == Len(s) >= Len(p) /\ SubSeq(s, 1, Len(p)) = p

\* s.split(sep): the fields between the separators, at least one field
RECURSIVE SplitFrom(_, _, _)
SplitFrom(s, sep, cur) ==
  IF s = <<>> THEN <<cur>>
  ELSE IF Head(s) = sep THEN <<cur>> \o SplitFrom(Tail(s), sep, <<>>)
  ELSE SplitFrom(Tail(s), sep, Append(cur, Head(s)))

Split(s, sep) == SplitFrom(s, sep, <<>>)

HexChars ==
  << "0", "1", "2", "3", "4", "5", "6", "7", "8", "9",
     "a", "b", "c", "d", "e", "f", "A", "B", "C", "D", "E", "F" >>

IsHexChar(c) == \E k \in 1..Len(HexChars) : HexChars[k] = c

HexCharValue(c) ==
  LET k == CHOOSE j \in 1..Len(HexChars) : HexChars[j] = c
  IN IF k <= 16 THEN k - 1 ELSE k - 7

\* the outcome of a conversion that raises ValueError
ValueError == -1

RECURSIVE HexDigitsValue(_, _)
HexDigitsValue(s, acc) ==
  IF s = <<>> THEN acc
  ELSE HexDigitsValue(Tail(s), acc * 16 + HexCharValue(Head(s)))

\* int(hex_val, 16) for a token that starts with "0x": the digits after the
\* prefix, of any length, single underscores allowed before and between them;
\* ValueError when there is no digit or a character is no hex digit
IntBase16(hex_val) ==
  LET body == SubSeq(hex_val, 3, Len(hex_val))
      digits == SelectSeq(body, LAMBDA c : c # "_")
  IN IF \/ digits = <<>>
        \/ \E k \in 1..Len(digits) : ~IsHexChar(digits[k])
        \/ body[Len(body)] = "_"
        \/ \E k \in 1..(Len(body) - 1) : body[k] = "_" /\ body[k + 1] = "_"
     THEN ValueError
     ELSE HexDigitsValue(digits, 0)

(***************************************************************************)
(* parse_can_message                                                        *)
(***************************************************************************)
NumBytes == 8
Offsets == 0..(NumBytes - 1)

None == [ok |-> FALSE]
Parsed(id, bytes) == [ok |-> TRUE, can_id |-> id, byte_values |-> bytes]

\* the prefix a hex-tagged token starts with
HexTag == <<"0", "x">>

\* ByteField that reads a tagged field that is no number as 0
ByteFieldLenient(parts, i) ==
  IF 4 + i < Len(parts)
  THEN LET hex_val == Strip(parts[4 + i + 1])
       IN IF hex_val # <<>> /\ StartsWith(hex_val, HexTag)
             /\ IntBase16(hex_val) # ValueError
          THEN IntBase16(hex_val)
          ELSE 0
  ELSE 0

\* one pass of the loop "for i in range(8)": the byte appended for offset i
ByteField(parts, i) ==
  IF 4 + i < Len(parts)
  THEN LET hex_val == Strip(parts[4 + i + 1])
       IN IF hex_val # <<>> /\ StartsWith(hex_val, HexTag)
          THEN IntBase16(hex_val)
          ELSE 0
  ELSE 0

parse_can_message(line) ==
  IF StartsWith(line, <<"#">>) \/ Strip(line) = <<>> THEN None
  ELSE LET parts == Split(line, ",")
       IN IF Len(parts) < 8 THEN None
          ELSE LET id == Strip(parts[3])
               IN IF ~StartsWith(id, HexTag) THEN None
                  ELSE LET bytes == [i \in Offsets |-> ByteField(parts, i)]
                       IN IF \E i \in Offsets : bytes[i] = ValueError
                          THEN None
                          ELSE Parsed(id, bytes)

(***************************************************************************)
(* The lines the serial port can deliver ("time,bus,id,len,b0,..,b7").     *)
(***************************************************************************)
RECURSIVE Join(_)
Join(fields) ==
  IF Len(fields) = 1 THEN fields[1]
  ELSE fields[1] \o <<",">> \o Join(Tail(fields))

Id3C4 == <<"0", "x", "3", "C", "4">>
Id3B3 == <<"0", "x", "3", "B", "3">>
B00 == <<"0", "x", "0", "0">>
B30 == <<"0", "x", "3", "0">>
B36 == <<"0", "x", "3", "6">>
B41 == <<"0", "x", "4", "1">>
B42 == <<"0", "x", "4", "2">>
B1FF == <<"0", "x", "1", "F", "F">>
BZZ == <<"0", "x", "Z", "Z">>
Prefix3C4 == << <<"1">>, <<"0">>, Id3C4, <<"8">> >>

\* identifier 0x3C4, bytes [0,0,0,0,0,0,0x41,0x42]
LineA == Join(Prefix3C4 \o <<B00, B00, B00, B00, B00, B00, B41, B42>>)
\* identifier 0x3C4, bytes [0,0,0,0,0,0,0x36,0x30], line ending kept
LineA2 == Join(Prefix3C4 \o <<B00, B00, B00, B00, B00, B00, B36, B30>>)
             \o <<"\r", "\n">>
\* identifier 0x3B3 with blanks around tokens, an untagged and an empty data
\* field, and eleven fields only: bytes [0x42,0,0,0x41,0,0,0x36,0]
LineB == Join(<< <<"1">>, <<"0">>, <<" ">> \o Id3B3 \o <<" ">>, <<"8">>,
                 B42, <<"7">>, <<>>, <<" ">> \o B41, B00, B00, B36 >>)
\* identifier 0x3C4 with a data token above the byte range at offset 6
LineOver == Join(Prefix3C4 \o <<B00, B00, B00, B00, B00, B00, B1FF, B42>>)

LineBlank == <<" ", "\n">>
\* a record commented out
LineComment == <<"#">> \o LineA
LineBadData == <<"b", "a", "d", ",", "d", "a", "t", "a">>
LineNoTag == Join(<< <<"1">>, <<"0">>, <<"3", "C", "4">>, <<"8">>,
                     B41, B42, B00, B00 >>)
LineBadHex == Join(Prefix3C4 \o <<B41, BZZ, B00, B00>>)

AcceptedLines == {LineA, LineA2, LineB, LineOver}
RejectedLines == {LineBlank, LineComment, LineBadData, LineNoTag, LineBadHex}
\* what the port delivers when the ingestion thread runs alone
ParserLines == AcceptedLines \cup RejectedLines
\* what the port delivers when both threads run
Lines == {LineA, LineB, LineOver, LineBadData}

\* the identifiers the lines can carry
\* records of two identifiers, enough for the three cells the clicks reach
SelectLines == {LineA, LineB}

CanIds == {Id3C4, Id3B3}

(***************************************************************************)
(* State.                                                                  *)
(***************************************************************************)
VARIABLES
  \* fields of CANVisualGrid
  running,              \* self.running
  serial,               \* self.serial: "open", "failed" (the device is gone)
                        \* or "closed"
  pid_list,             \* identifiers in discovery order
  current_values,       \* [identifier][offset]: latest byte, default 0
  change_times,         \* [identifier][offset]: time of last change, 0 = never
  total_messages,
  scroll_offset,
  selected_cells,       \* list of <<pid, byte_index>>
  calibration_mode,
  calibration_data,     \* list of <<actual_temp, combined_value, timestamp>>
  \* the ingestion thread, read_serial_data
  ing_pc,
  line,                                \* the line read, stripped
  can_id, byte_values, current_time,   \* the record being applied
  byte_i,                              \* loop index of "for i, new_value"
  cell1, cell2,                        \* (pid1, byte1_idx), (pid2, byte2_idx)
  combined,                            \* combined value computed for the log
  last_logged_combined,
  \* the main thread, run / handle_events / draw_info_panel
  main_pc,
  click_cell,           \* the cell of a click between pop(0) and append
  draw_i,               \* index of the selected cell draw_info_panel reads
  draw_value,           \* value read at line 412, before change_time is read
  ui_combined,          \* value printed by handle_temperature_input
  fit_result,           \* outcome of calculate_temperature_formula
  \* calculate_temperature_values
  value1, value2,       \* its arguments; value2 = NoValue stands for None
  results,              \* the list it returns, <<>> before the call
  \* the environment
  clock,                \* time.time()
  port,                 \* the lines the serial port can deliver
  nrec,                 \* records delivered by the serial port so far
  \* history, written only to state the properties
  pre_list, pre_values, pre_times, pre_total,  \* the store when the line was read
  hist,                 \* <<pid, offset, value, changed_at>> left by records
  observed,             \* the last pair draw_info_panel read
  first_partner,        \* the second selected cell when cell1 was read
                        \* (line 208), until cell2 is read (line 209)
  last_click            \* cell and prior selection of the last click

storeVars == <<pid_list, current_values, change_times, total_messages>>
preVars == <<pre_list, pre_values, pre_times, pre_total>>
recVars == <<line, can_id, byte_values, current_time, byte_i, preVars>>
logVars == <<cell1, cell2, combined, last_logged_combined, first_partner>>
ingVars == <<ing_pc, recVars, logVars, clock, port, nrec, hist>>
selVars == <<selected_cells, click_cell, last_click>>
drawVars == <<draw_i, draw_value, observed>>
calVars == <<calibration_mode, calibration_data, ui_combined, fit_result>>
interpVars == <<value1, value2, results>>
mainVars == <<main_pc, scroll_offset, selVars, drawVars, calVars>>
vars == <<running, serial, storeVars, ingVars, mainVars, interpVars>>

NoLine == <<"-">>
NoId == <<>>
NoCell == <<>>
NoValue == -1
NoClick == [kind |-> "none", cell |-> NoCell, before |-> <<>>,
            twice |-> FALSE, first |-> <<>>]
ZeroRow == [i \in Offsets |-> 0]

\* defaultdict(lambda: [0] * 8): every identifier reads as a row of zeros
\* until a record writes it
InitTable == [id \in CanIds |-> ZeroRow]

\* the state __init__ and the start of run leave, but for the lines the
\* port will deliver and the calibration state
InitObject ==
  /\ running = TRUE
  /\ serial = "open"
  /\ pid_list = <<>>
  /\ current_values = InitTable
  /\ change_times = InitTable
  /\ total_messages = 0
  /\ scroll_offset = 0
  /\ selected_cells = <<>>
  /\ ing_pc = "while"
  /\ line = NoLine
  /\ can_id = NoId
  /\ byte_values = ZeroRow
  /\ current_time = 0
  /\ byte_i = 0
  /\ cell1 = NoCell
  /\ cell2 = NoCell
  /\ combined = NoValue
  /\ last_logged_combined = NoValue
  /\ main_pc = "events"
  /\ click_cell = NoCell
  /\ draw_i = 0
  /\ draw_value = NoValue
  /\ ui_combined = NoValue
  /\ fit_result = [kind |-> "not_called"]
  /\ clock = 1
  /\ nrec = 0
  /\ pre_list = <<>>
  /\ pre_values = InitTable
  /\ pre_times = InitTable
  /\ pre_total = 0
  /\ hist = {}
  /\ observed = NoCell
  /\ last_click = NoClick
  /\ first_partner = NoCell

\* no call of calculate_temperature_values
NoCall ==
  /\ value1 = NoValue
  /\ value2 = NoValue
  /\ results = <<>>

Init ==
  /\ InitObject
  /\ NoCall
  /\ port = Lines
  /\ calibration_mode = FALSE
  /\ calibration_data = <<>>

(***************************************************************************)
(* The ingestion thread: read_serial_data.                                 *)
(***************************************************************************)
InList(x, list) == \E k \in 1..Len(list) : list[k] = x

\* Discover without the membership test of line 195
DiscoverAlways(list, id) == Append(list, id)

\* lines 195-196: an identifier not seen before is appended
Discover(list, id) == IF InList(id, list) THEN list ELSE Append(list, id)

\* the new (value, changed_at) pairs a record leaves in the slots of its
\* identifier, for the slots whose pair it changes
PairsAfter(id, bytes, now) ==
  {<<id, i, bytes[i], now>> :
     i \in {j \in Offsets : current_values[id][j] # bytes[j]}}

\* the locals of the loop body, dead once the body is left
ResetRecord ==
  /\ line' = NoLine
  /\ can_id' = NoId
  /\ byte_values' = ZeroRow
  /\ current_time' = 0
  /\ byte_i' = 0
  /\ pre_list' = <<>>
  /\ pre_values' = InitTable
  /\ pre_times' = InitTable
  /\ pre_total' = 0

ResetLog ==
  /\ cell1' = NoCell
  /\ cell2' = NoCell
  /\ combined' = NoValue
  /\ first_partner' = NoCell

\* line 185: while self.running
IngWhile ==
  /\ ing_pc = "while"
  /\ ing_pc' = IF running THEN "poll" ELSE "exited"
  /\ UNCHANGED <<interpVars, running, serial, storeVars, recVars, logVars,
                 clock, port, nrec, hist, mainVars>>

\* line 186: self.serial.in_waiting, outside the try: on a closed or failed
\* port it raises and ends the thread; with nothing waiting the thread sleeps
IngPoll ==
  /\ ing_pc = "poll"
  /\ \/ /\ serial # "open"
        /\ ing_pc' = "died"
     \/ /\ serial = "open"
        /\ ing_pc' = "read"
     \/ /\ serial = "open"
        /\ ing_pc' = "sleep"
  /\ UNCHANGED <<interpVars, running, serial, storeVars, recVars, logVars,
                 clock, port, nrec, hist, mainVars>>

\* lines 188-196: readline, strip, parse; for a record, the time stamp and
\* the discovery of its identifier.  A rejected line and a failed read (the
\* port closed or failed meanwhile) fall through to the sleep.  The loop sleeps 1 ms
\* between records, so time.time() is later for every record.
IngRead ==
  /\ ing_pc = "read"
  /\ \/ /\ serial # "open"
        /\ ing_pc' = "sleep"
        /\ UNCHANGED <<storeVars, recVars, clock, port, nrec, hist>>
     \/ /\ serial = "open"
        /\ \E raw \in port :
             LET result == parse_can_message(Strip(raw))
                 now == clock + 1
             IN /\ result.ok => nrec < MaxRecords
                /\ line' = Strip(raw)
                /\ pre_list' = pid_list
                /\ pre_values' = current_values
                /\ pre_times' = change_times
                /\ pre_total' = total_messages
                /\ IF result.ok
                   THEN /\ nrec' = nrec + 1
                        /\ can_id' = result.can_id
                        /\ byte_values' = result.byte_values
                        /\ current_time' = now
                        /\ clock' = now
                        /\ pid_list' = Discover(pid_list, result.can_id)
                        /\ hist' = hist \cup
                             PairsAfter(result.can_id, result.byte_values, now)
                        /\ ing_pc' = "compare"
                   ELSE /\ ing_pc' = "sleep"
                        /\ UNCHANGED <<pid_list, can_id, byte_values,
                                       current_time, clock, nrec, hist>>
                /\ UNCHANGED <<current_values, change_times, total_messages,
                               byte_i, port>>
  /\ UNCHANGED <<interpVars, running, serial, logVars, mainVars>>

\* CompareByte against the offset before, which the record has overwritten
CompareByteShifted(row, times, i, new_value, now) ==
  IF row[IF i = 0 THEN 0 ELSE i - 1] # new_value
  THEN [times EXCEPT ![i] = now]
  ELSE times

\* CompareByte without the comparison of line 201
CompareByteAlways(row, times, i, new_value, now) ==
  [times EXCEPT ![i] = now]

\* lines 201-202: if old_values[i] != new_value: change_times[..] = now;
\* old_values is the stored row itself, read when the comparison is made
CompareByte(row, times, i, new_value, now) ==
  IF row[i] # new_value THEN [times EXCEPT ![i] = now] ELSE times

IngCompare ==
  /\ ing_pc = "compare"
  /\ change_times' =
       [change_times EXCEPT ![can_id] =
          CompareByte(current_values[can_id], @, byte_i,
                      byte_values[byte_i], current_time)]
  /\ ing_pc' = "store"
  /\ UNCHANGED <<interpVars, running, serial, pid_list, current_values,
                 total_messages, recVars, logVars, clock, port, nrec, hist,
                 mainVars>>

\* line 203: self.current_values[can_id][i] = new_value, then the next i
IngStore ==
  /\ ing_pc = "store"
  /\ current_values' =
       [current_values EXCEPT ![can_id][byte_i] = byte_values[byte_i]]
  /\ IF byte_i + 1 < NumBytes
     THEN byte_i' = byte_i + 1 /\ ing_pc' = "compare"
     ELSE byte_i' = 0 /\ ing_pc' = "logcheck"
  /\ UNCHANGED <<interpVars, running, serial, pid_list, change_times,
                 total_messages, line, can_id, byte_values, current_time,
                 preVars, logVars, clock, port, nrec, hist, mainVars>>

\* line 207: if len(self.selected_cells) == 2
IngLogCheck ==
  /\ ing_pc = "logcheck"
  /\ ing_pc' = IF Len(selected_cells) = 2 THEN "first" ELSE "count"
  /\ UNCHANGED <<interpVars, running, serial, storeVars, recVars, logVars,
                 clock, port, nrec, hist, mainVars>>

\* line 208: pid1, byte1_idx = self.selected_cells[0]; an IndexError is
\* swallowed by "except Exception: pass", which skips the rest of the body
IngFirst ==
  /\ ing_pc = "first"
  /\ IF Len(selected_cells) >= 1
     THEN /\ cell1' = selected_cells[1]
          /\ first_partner' = IF Len(selected_cells) = 2
                               THEN selected_cells[2] ELSE NoCell
          /\ ing_pc' = "second"
          /\ UNCHANGED <<recVars, cell2, combined>>
     ELSE /\ ing_pc' = "sleep"
          /\ ResetRecord
          /\ ResetLog
  /\ UNCHANGED <<interpVars, running, serial, storeVars, last_logged_combined,
                 clock, port, nrec, hist, mainVars>>

\* line 209: pid2, byte2_idx = self.selected_cells[1]
IngSecond ==
  /\ ing_pc = "second"
  /\ IF Len(selected_cells) >= 2
     THEN /\ cell2' = selected_cells[2]
          /\ ing_pc' = "combine"
          /\ first_partner' = NoCell
          /\ UNCHANGED <<recVars, cell1, combined>>
     ELSE /\ ing_pc' = "sleep"
          /\ ResetRecord
          /\ ResetLog
  /\ UNCHANGED <<interpVars, running, serial, storeVars, last_logged_combined,
                 clock, port, nrec, hist, mainVars>>

\* x | y on non-negative integers
RECURSIVE BitOr(_, _)
BitOr(x, y) ==
  IF x = 0 THEN y
  ELSE IF y = 0 THEN x
  ELSE (IF x % 2 = 1 \/ y % 2 = 1 THEN 1 ELSE 0)
       + 2 * BitOr(x \div 2, y \div 2)

\* lines 105 and 215: combined = (byte0_val << 8) | byte1_val
Combine(byte0_val, byte1_val) == BitOr(byte0_val * 256, byte1_val)

\* lines 212-229: for a record of the first selected identifier, the
\* combined value is computed, and logged when it is not the last one logged
IngCombine ==
  /\ ing_pc = "combine"
  /\ IF can_id = cell1[1]
     THEN LET c == Combine(current_values[cell1[1]][cell1[2]],
                           current_values[cell2[1]][cell2[2]])
          IN /\ combined' = c
             /\ last_logged_combined' = c
     ELSE UNCHANGED <<combined, last_logged_combined>>
  /\ ing_pc' = "count"
  /\ UNCHANGED <<interpVars, running, serial, storeVars, recVars, cell1,
                 cell2, first_partner, clock, port, nrec, hist, mainVars>>

\* line 231: self.total_messages += 1
IngCount ==
  /\ ing_pc = "count"
  /\ total_messages' = total_messages + 1
  /\ ing_pc' = "sleep"
  /\ ResetRecord
  /\ ResetLog
  /\ UNCHANGED <<interpVars, running, serial, pid_list, current_values,
                 change_times, last_logged_combined, clock, port, nrec, hist,
                 mainVars>>

\* line 236: time.sleep(0.001), reached from every path through the body,
\* "except Exception: pass" included; then the loop test again
IngSleep ==
  /\ ing_pc = "sleep"
  /\ ing_pc' = "while"
  /\ ResetRecord
  /\ ResetLog
  /\ UNCHANGED <<interpVars, running, serial, storeVars, last_logged_combined,
                 clock, port, nrec, hist, mainVars>>

Ingest ==
  \/ IngWhile
  \/ IngPoll
  \/ IngRead
  \/ IngCompare
  \/ IngStore
  \/ IngLogCheck
  \/ IngFirst
  \/ IngSecond
  \/ IngCombine
  \/ IngCount
  \/ IngSleep

(***************************************************************************)
(* The main thread: run, handle_events, draw_info_panel.                   *)
(***************************************************************************)
START_X == 100
START_Y == 40
CELL_WIDTH == 80
CELL_HEIGHT == 24
WINDOW_HEIGHT == 900
max_visible_rows == (WINDOW_HEIGHT - START_Y - 150) \div CELL_HEIGHT

\* mouse positions of left clicks: row 0 columns 6 and 7, row 1 column 7,
\* and positions left of, right of, above and below the grid
ClickPositions ==
  { <<580, 40>>, <<660, 63>>, <<739, 87>>,
    <<99, 40>>, <<740, 40>>, <<580, 39>>, <<580, 736>> }

\* get_cell_at_position without the column test of line 308
get_cell_any_column(mouse_x, mouse_y) ==
  IF mouse_x < START_X \/ mouse_y < START_Y THEN NoCell
  ELSE IF mouse_y >= START_Y + max_visible_rows * CELL_HEIGHT THEN NoCell
  ELSE LET col == (mouse_x - START_X) \div CELL_WIDTH
           row == (mouse_y - START_Y) \div CELL_HEIGHT
           actual_row == row + scroll_offset
       IN IF actual_row < 0 \/ actual_row >= Len(pid_list) THEN NoCell
          ELSE <<pid_list[actual_row + 1], col>>

\* lines 295-317: the cell under a mouse position, NoCell outside the grid
get_cell_at_position(mouse_x, mouse_y) ==
  IF mouse_x < START_X \/ mouse_y < START_Y THEN NoCell
  ELSE IF mouse_y >= START_Y + max_visible_rows * CELL_HEIGHT THEN NoCell
  ELSE LET col == (mouse_x - START_X) \div CELL_WIDTH
           row == (mouse_y - START_Y) \div CELL_HEIGHT
           actual_row == row + scroll_offset
       IN IF col < 0 \/ col >= 8 THEN NoCell
          ELSE IF actual_row < 0 \/ actual_row >= Len(pid_list) THEN NoCell
          ELSE <<pid_list[actual_row + 1], col>>

\* Remove that drops the head of the list whatever x is
RemoveHead(list, x) == Tail(list)

\* list.remove(x): the list without its first x
RECURSIVE Remove(_, _)
Remove(list, x) ==
  IF list = <<>> THEN <<>>
  ELSE IF Head(list) = x THEN Tail(list)
  ELSE <<Head(list)>> \o Remove(Tail(list), x)

\* PopOldest as pop(): the newest cell goes
PopNewest(list) == SubSeq(list, 1, Len(list) - 1)

\* line 664: self.selected_cells.pop(0)
PopOldest(list) == Tail(list)

Max(a, b) == IF a >= b THEN a ELSE b
Min(a, b) == IF a <= b THEN a ELSE b

RECURSIVE SumSeq(_)
SumSeq(q) == IF q = <<>> THEN 0 ELSE Head(q) + SumSeq(Tail(q))

\* lines 113-148.  The slope m and the intercept b are kept as fractions:
\* m = m_num / m_den, b = b_num / b_den.  A zero divisor at line 130 raises
\* ZeroDivisionError.
calculate_temperature_formula(data) ==
  IF Len(data) < 2 THEN [kind |-> "returned"]
  ELSE LET n == Len(data)
           x_vals == [k \in 1..n |-> data[k][2]]
           y_vals == [k \in 1..n |-> data[k][1]]
           sum_x == SumSeq(x_vals)
           sum_y == SumSeq(y_vals)
           sum_xy == SumSeq([k \in 1..n |-> x_vals[k] * y_vals[k]])
           sum_x2 == SumSeq([k \in 1..n |-> x_vals[k] * x_vals[k]])
           divisor == n * sum_x2 - sum_x * sum_x
           m_num == n * sum_xy - sum_x * sum_y
       IN IF divisor = 0 THEN [kind |-> "ZeroDivisionError"]
          ELSE [kind |-> "formula",
                m_num |-> m_num, m_den |-> divisor,
                b_num |-> sum_y * divisor - m_num * sum_x,
                b_den |-> n * divisor]

\* The history variables of the main thread describe the event or read just
\* handled; the next step of the thread forgets them.
Forget ==
  /\ last_click' = NoClick
  /\ ui_combined' = NoValue
  /\ observed' = NoCell

\* the click just handled: its cell, the selection before it, and, when the
\* click before it was on the same cell, the selection before that one
Clicked(cell) ==
  [kind |-> IF cell = NoCell THEN "miss" ELSE "hit",
   cell |-> cell,
   before |-> selected_cells,
   twice |-> cell # NoCell /\ last_click.cell = cell,
   first |-> IF cell # NoCell /\ last_click.cell = cell
             THEN last_click.before ELSE <<>>]

\* lines 584-589 and 711-712: QUIT or Escape ends handle_events with False,
\* the loop breaks and the finally block clears self.running
EvQuit ==
  /\ main_pc = "events"
  /\ running' = FALSE
  /\ main_pc' = "close"
  /\ Forget
  /\ UNCHANGED <<interpVars, serial, storeVars, ingVars, scroll_offset,
                 selected_cells, click_cell, draw_i, draw_value,
                 calibration_mode, calibration_data, fit_result>>

\* lines 713-714: self.serial.close(), then the summary and the end of run
MainClose ==
  /\ main_pc = "close"
  /\ serial' = "closed"
  /\ main_pc' = "done"
  /\ UNCHANGED <<interpVars, running, storeVars, ingVars, scroll_offset,
                 selVars, drawVars, calVars>>

\* lines 594-612: T toggles calibration mode; turned off with data present,
\* the formula is computed when there are at least 2 points.  An exception
\* of the computation leaves handle_events and run through the finally block.
EvKeyT ==
  /\ main_pc = "events"
  /\ calibration_mode' = ~calibration_mode
  /\ IF calibration_mode /\ calibration_data # <<>> /\ Len(calibration_data) >= 2
     THEN /\ fit_result' = calculate_temperature_formula(calibration_data)
          /\ IF fit_result'.kind = "ZeroDivisionError"
             THEN running' = FALSE /\ main_pc' = "close"
             ELSE UNCHANGED <<running, main_pc>>
     ELSE UNCHANGED <<fit_result, running, main_pc>>
  /\ Forget
  /\ UNCHANGED <<interpVars, serial, storeVars, ingVars, scroll_offset,
                 selected_cells, click_cell, draw_i, draw_value,
                 calibration_data>>

\* lines 613-616 and 96-111: Enter in calibration mode with 2 cells selected
\* prints the combined value; nothing is stored
EvKeyReturn ==
  /\ main_pc = "events"
  /\ IF calibration_mode /\ Len(selected_cells) = 2
     THEN IF Len(selected_cells) >= 2
          THEN ui_combined' =
                 Combine(current_values[selected_cells[1][1]][selected_cells[1][2]],
                         current_values[selected_cells[2][1]][selected_cells[2][2]])
          ELSE ui_combined' = NoValue
     ELSE ui_combined' = NoValue
  /\ last_click' = NoClick
  /\ observed' = NoCell
  /\ UNCHANGED <<interpVars, running, serial, storeVars, ingVars, main_pc,
                 scroll_offset, selected_cells, click_cell, draw_i,
                 draw_value, calibration_mode, calibration_data, fit_result>>

\* lines 620-624 and 630-635: Up, Down and the mouse wheel
EvScroll ==
  /\ main_pc = "events"
  /\ scroll_offset' \in
       { IF step < 0 THEN Max(0, scroll_offset + step)
         ELSE Min(Max(0, Len(pid_list) - max_visible_rows),
                  scroll_offset + step) : step \in {-3, -1, 1, 3} }
  /\ Forget
  /\ UNCHANGED <<interpVars, running, serial, storeVars, ingVars, main_pc,
                 selected_cells, click_cell, draw_i, draw_value,
                 calibration_mode, calibration_data, fit_result>>

\* lines 625-628: C clears the selection
EvKeyC ==
  /\ main_pc = "events"
  /\ selected_cells' = <<>>
  /\ Forget
  /\ UNCHANGED <<interpVars, running, serial, storeVars, ingVars, main_pc,
                 scroll_offset, click_cell, draw_i, draw_value,
                 calibration_mode, calibration_data, fit_result>>

\* lines 637-669: a left click.  A selected cell is removed; a new cell is
\* appended while fewer than 2 are selected; with 2 selected the oldest is
\* popped here and the new cell appended by the next step.
EvClick ==
  /\ main_pc = "events"
  /\ \E cell \in {get_cell_at_position(pos[1], pos[2]) : pos \in ClickPositions} :
          /\ last_click' = Clicked(cell)
          /\ IF cell = NoCell
             THEN UNCHANGED <<selected_cells, click_cell, main_pc>>
             ELSE IF InList(cell, selected_cells)
             THEN /\ selected_cells' = Remove(selected_cells, cell)
                  /\ UNCHANGED <<click_cell, main_pc>>
             ELSE IF Len(selected_cells) < 2
             THEN /\ selected_cells' = Append(selected_cells, cell)
                  /\ UNCHANGED <<click_cell, main_pc>>
             ELSE /\ selected_cells' = PopOldest(selected_cells)
                  /\ click_cell' = cell
                  /\ main_pc' = "replace"
  /\ ui_combined' = NoValue
  /\ observed' = NoCell
  /\ UNCHANGED <<interpVars, running, serial, storeVars, ingVars,
                 scroll_offset, draw_i, draw_value, calibration_mode,
                 calibration_data, fit_result>>

\* line 665: self.selected_cells.append(cell) after pop(0)
MainReplace ==
  /\ main_pc = "replace"
  /\ selected_cells' = Append(selected_cells, click_cell)
  /\ click_cell' = NoCell
  /\ main_pc' = "events"
  /\ UNCHANGED <<interpVars, running, serial, storeVars, ingVars,
                 scroll_offset, last_click, drawVars, calVars>>

\* handle_events returns True and draw_grid runs: draw_info_panel goes
\* through the selected cells (line 411)
MainDraw ==
  /\ main_pc = "events"
  /\ IF Len(selected_cells) > 0
     THEN draw_i' = 1 /\ main_pc' = "draw_value"
     ELSE draw_i' = 0 /\ main_pc' = "frame_end"
  /\ Forget
  /\ UNCHANGED <<interpVars, running, serial, storeVars, ingVars,
                 scroll_offset, selected_cells, click_cell, draw_value,
                 calibration_mode, calibration_data, fit_result>>

\* line 412: value = self.current_values[pid][byte_index]
DrawValue ==
  /\ main_pc = "draw_value"
  /\ draw_value' =
       current_values[selected_cells[draw_i][1]][selected_cells[draw_i][2]]
  /\ main_pc' = "draw_time"
  /\ observed' = NoCell
  /\ UNCHANGED <<interpVars, running, serial, storeVars, ingVars,
                 scroll_offset, selVars, draw_i, calVars>>

\* line 414: change_time = self.change_times[pid][byte_index]
DrawTime ==
  /\ main_pc = "draw_time"
  /\ observed' =
       << selected_cells[draw_i][1], selected_cells[draw_i][2], draw_value,
          change_times[selected_cells[draw_i][1]][selected_cells[draw_i][2]] >>
  /\ draw_value' = NoValue
  /\ IF draw_i < Len(selected_cells)
     THEN draw_i' = draw_i + 1 /\ main_pc' = "draw_value"
     ELSE draw_i' = 0 /\ main_pc' = "frame_end"
  /\ UNCHANGED <<interpVars, running, serial, storeVars, ingVars,
                 scroll_offset, selVars, calVars>>

\* lines 705-706: the frame is shown and the loop tests self.running again
MainFrameEnd ==
  /\ main_pc = "frame_end"
  /\ observed' = NoCell
  /\ main_pc' = "events"
  /\ UNCHANGED <<interpVars, running, serial, storeVars, ingVars,
                 scroll_offset, selVars, draw_i, draw_value, calVars>>

Main ==
  \/ EvQuit
  \/ MainClose
  \/ EvKeyT
  \/ EvKeyReturn
  \/ EvScroll
  \/ EvKeyC
  \/ EvClick
  \/ MainReplace
  \/ MainDraw
  \/ DrawValue
  \/ DrawTime
  \/ MainFrameEnd

Next == Ingest \/ Main

Spec == Init /\ [][Next]_vars

(***************************************************************************)
(* The ingestion thread alone, the operator idle, on a wider set of lines. *)
(***************************************************************************)
InitIngest ==
  /\ InitObject
  /\ NoCall
  /\ port = ParserLines
  /\ calibration_mode = FALSE
  /\ calibration_data = <<>>

NextIngest ==
  \/ IngWhile
  \/ IngPoll
  \/ IngRead
  \/ IngCompare
  \/ IngStore
  \/ IngLogCheck
  \/ IngCount
  \/ IngSleep

SpecIngest == InitIngest /\ [][NextIngest]_vars

(***************************************************************************)
(* The selection: the ingestion thread on a port that delivers records of  *)
(* two identifiers, and the events of the main thread that read or write   *)
(* the selection (clicks, C, scrolling, quit).  The selection is written   *)
(* by the main thread alone and depends on the ingestion only through the  *)
(* discovery list and the scroll bound.                                    *)
(***************************************************************************)
InitSelect ==
  /\ InitObject
  /\ NoCall
  /\ port = SelectLines
  /\ calibration_mode = FALSE
  /\ calibration_data = <<>>

NextSelect ==
  \/ Ingest
  \/ EvClick
  \/ MainReplace
  \/ EvKeyC
  \/ EvScroll
  \/ EvQuit
  \/ MainClose

SpecSelect == InitSelect /\ [][NextSelect]_vars

(***************************************************************************)
(* The calibration fit on stored points: the operator toggles calibration  *)
(* mode (T) over a list of points as record_point would have stored them.  *)
(***************************************************************************)
\* number of calibration points stored
MaxPoints == 3

CalPoints == {<<temp, value, 1>> : temp \in {50, 95}, value \in {100, 400}}
CalLists == UNION {[1..n -> CalPoints] : n \in 0..MaxPoints}

InitFit ==
  /\ InitObject
  /\ NoCall
  /\ port = Lines
  /\ calibration_mode \in BOOLEAN
  /\ calibration_data \in CalLists

NextFit ==
  \/ EvKeyT
  \/ MainClose

SpecFit == InitFit /\ [][NextFit]_vars

(***************************************************************************)
(* Properties.                                                             *)
(***************************************************************************)
NoDup(list) ==
  \A j, k \in 1..Len(list) : list[j] = list[k] => j = k

IsPrefix(p, q) == Len(p) <= Len(q) /\ SubSeq(q, 1, Len(p)) = p

\* a record has been applied: the byte loop of lines 200-203 is over
Applied == ing_pc \in {"logcheck", "first", "second", "combine", "count"}

\* C1: once a record is applied, the change time of every slot is the
\* record's time stamp if the record's byte differs from the value the slot
\* held before the record, and is otherwise what it was before the record
\* (0 while no change was ever seen); the time stamp is later than every
\* earlier change time.
C1_ChangeTimeIffDiffers ==
  Applied =>
    \A id \in CanIds, i \in Offsets :
      /\ change_times[id][i] =
           IF id = can_id /\ byte_values[i] # pre_values[id][i]
           THEN current_time
           ELSE pre_times[id][i]
      /\ pre_times[id][i] < current_time

\* a second record of an identifier: offset 6 differs and is stamped now,
\* offset 7 repeats its value and keeps its earlier stamp, offset 0 repeats
\* the initial 0 and stays unset
C1_Witness ==
  /\ ing_pc = "logcheck"
  /\ byte_values[6] # pre_values[can_id][6]
  /\ change_times[can_id][6] = current_time
  /\ byte_values[7] = pre_values[can_id][7]
  /\ change_times[can_id][7] > 0
  /\ change_times[can_id][7] < current_time
  /\ change_times[can_id][0] = 0

\* C2: every (value, changed_at) pair draw_info_panel reads for a slot is a
\* pair the slot held before or after a record, never a mix of the two.
C2_NoTornPair ==
  observed # NoCell =>
    \/ observed[3] = 0 /\ observed[4] = 0
    \/ observed \in hist

\* C3 as stated: after two consecutive clicks on one cell the selection is
\* what it was before the first of them.
C3_ToggleTwiceRestores ==
  (last_click.twice /\ main_pc # "replace") =>
    selected_cells = last_click.first

\* C3 as amended: two consecutive clicks on one cell restore the selection
\* when it held fewer than 2 cells or the cell was its last one; from a full
\* selection [s0, s1], clicking s0 twice gives [s1, s0] and clicking an
\* unselected cell twice gives [s1].
C3_ToggleTwice ==
  (last_click.twice /\ main_pc # "replace") =>
    LET f == last_click.first
        c == last_click.cell
    IN IF Len(f) < 2 \/ f[2] = c THEN selected_cells = f
       ELSE IF f[1] = c THEN selected_cells = <<f[2], c>>
       ELSE selected_cells = <<f[2]>>

\* the second of two clicks on the last cell of a full selection
C3_Witness ==
  /\ last_click.twice
  /\ main_pc = "events"
  /\ Len(last_click.first) = 2
  /\ last_click.first[2] = last_click.cell
  /\ selected_cells = last_click.first

\* C4: the selection holds at most 2 cells, none twice, each with an offset
\* in 0..7 and an identifier of the discovery list; a click that maps to no
\* cell leaves the selection as it was.
C4_SelectionBounded ==
  /\ Len(selected_cells) <= 2
  /\ NoDup(selected_cells)
  /\ \A k \in 1..Len(selected_cells) :
       /\ selected_cells[k][2] \in Offsets
       /\ InList(selected_cells[k][1], pid_list)
  /\ last_click.kind = "miss" => selected_cells = last_click.before

\* a click outside the cells while 2 cells are selected
C4_Witness ==
  /\ last_click.kind = "miss"
  /\ Len(selected_cells) = 2

\* C5: a click on an unselected cell s2 while [s0, s1] is selected leaves
\* exactly [s1, s2].
C5_ThirdEvictsOldest ==
  ( /\ last_click.kind = "hit"
    /\ main_pc # "replace"
    /\ Len(last_click.before) = 2
    /\ ~InList(last_click.cell, last_click.before) ) =>
    selected_cells = <<last_click.before[2], last_click.cell>>

C5_Witness ==
  /\ last_click.kind = "hit"
  /\ main_pc = "events"
  /\ Len(last_click.before) = 2
  /\ ~InList(last_click.cell, last_click.before)
  /\ Len(selected_cells) = 2

\* the value of a selected cell
CellValue(cell) == current_values[cell[1]][cell[2]]

\* what C6 asks of a combined value c at the moment it is computed
CombinedAsClaimed(c) ==
  /\ Len(selected_cells) = 2
  /\ c = 256 * CellValue(selected_cells[1]) + CellValue(selected_cells[2])
  /\ c \in 0..65535

\* C6: wherever a combined value is computed (the logger of the ingestion
\* thread, handle_temperature_input), exactly 2 cells are selected and the
\* value is (first selected << 8) | second selected, within 0..65535.
C6_CombinedValue ==
  [][ /\ (ing_pc = "combine" /\ combined' # NoValue)
           => CombinedAsClaimed(combined')
      /\ (ing_pc' = ing_pc /\ ui_combined' # NoValue)
           => CombinedAsClaimed(ui_combined') ]_vars

\* a record has been read and its identifier discovered
ReadsRecord == ing_pc = "read" /\ ing_pc' = "compare"

\* C7: the discovery list holds no identifier twice and holds the identifier
\* of every record; it only grows at its end: a record of a known identifier
\* leaves it as it is, a record of a new one appends it.
C7_DiscoveryOrder ==
  /\ [](NoDup(pid_list) /\ (can_id # NoId => InList(can_id, pid_list)))
  /\ [][IsPrefix(pid_list, pid_list')]_vars
  /\ [][ReadsRecord =>
          pid_list' = IF InList(can_id', pid_list) THEN pid_list
                      ELSE Append(pid_list, can_id')]_vars

\* a record of an identifier that is already listed
C7_Witness ==
  /\ ing_pc = "compare"
  /\ pre_list # <<>>
  /\ InList(can_id, pre_list)
  /\ pid_list = pre_list

\* C8: every byte the parser returns, and so every stored value, is in 0..255.
C8_BytesInRange ==
  /\ \A id \in CanIds, i \in Offsets : current_values[id][i] \in 0..255
  /\ can_id # NoId =>
       /\ DOMAIN byte_values = Offsets
       /\ \A i \in Offsets : byte_values[i] \in 0..255

\* the lines C9 names: blank, comment, fewer than 8 fields, identifier
\* without the 0x tag, a tagged data field that is no hexadecimal number
NumFields(l) == 1 + Len(SelectSeq(l, LAMBDA c : c = ","))

BadHexToken(t) ==
  /\ StartsWith(t, HexTag)
  /\ \/ Len(t) = 2
     \/ \E k \in 3..Len(t) : ~IsHexChar(t[k])

NamedRejected(l) ==
  \/ Strip(l) = <<>>
  \/ l[1] = "#"
  \/ NumFields(l) < 8
  \/ ~StartsWith(Strip(Split(l, ",")[3]), HexTag)
  \/ \E k \in 5..Min(12, NumFields(l)) : BadHexToken(Strip(Split(l, ",")[k]))

\* the store
Store == <<pid_list, current_values, change_times, total_messages>>

\* C9: a line of one of the rejected kinds yields no record and leaves the
\* discovery list, the values, the change times and the message counter as
\* they were when it was read; the thread goes on to its sleep and the next
\* pass of the loop.
C9_RejectedLineNoMutation ==
  (line # NoLine /\ NamedRejected(line)) =>
    /\ ing_pc = "sleep"
    /\ can_id = NoId
    /\ Store = <<pre_list, pre_values, pre_times, pre_total>>

\* "bad,data" read after a record has been stored
C9_Witness ==
  /\ line = LineBadData
  /\ ing_pc = "sleep"
  /\ total_messages > 0
  /\ pid_list # <<>>

\* the divisor of the slope, n * sum(x^2) - (sum x)^2
FitDivisor(data) ==
  LET n == Len(data)
      xs == [k \in 1..n |-> data[k][2]]
  IN n * SumSeq([k \in 1..n |-> xs[k] * xs[k]]) - SumSeq(xs) * SumSeq(xs)

ConfirmsPoint ==
  /\ main_pc = "events"
  /\ ing_pc' = ing_pc
  /\ calibration_mode
  /\ Len(selected_cells) = 2
  /\ ui_combined' # NoValue

\* C11: Enter in calibration mode with exactly 2 cells selected appends one
\* point to the calibration list, a point made of the reference value, the
\* combined value of the selection and the time.
C11_EnterAppendsPoint ==
  [][ConfirmsPoint =>
       /\ Len(calibration_data') = Len(calibration_data) + 1
       /\ SubSeq(calibration_data', 1, Len(calibration_data)) = calibration_data
       /\ calibration_data'[Len(calibration_data')][2] = ui_combined']_vars

(***************************************************************************)
(* Transport failure: the device behind the port goes away while the       *)
(* ingestion thread runs and the main loop draws its frames.  The threads  *)
(* are scheduled fairly: the ingestion thread keeps taking its steps, and  *)
(* the main loop keeps drawing frames at 30 FPS; only the operator's quit  *)
(* may never come.                                                         *)
(***************************************************************************)
\* the device is unplugged: in_waiting and readline raise from now on
PortFails ==
  /\ serial = "open"
  /\ serial' = "failed"
  /\ UNCHANGED <<interpVars, running, storeVars, ingVars, mainVars>>

\* one record and the empty read of a readline that timed out
TransportLines == {LineB, LineBlank}

InitTransport ==
  /\ InitObject
  /\ NoCall
  /\ port = TransportLines
  /\ calibration_mode = FALSE
  /\ calibration_data = <<>>

\* the frames of the main loop
MainLoop ==
  \/ MainDraw
  \/ MainFrameEnd
  \/ MainClose

NextTransport ==
  \/ IngWhile
  \/ IngPoll
  \/ IngRead
  \/ IngCompare
  \/ IngStore
  \/ IngLogCheck
  \/ IngCount
  \/ IngSleep
  \/ PortFails
  \/ MainDraw
  \/ MainFrameEnd
  \/ EvQuit
  \/ MainClose

SpecTransport ==
  /\ InitTransport
  /\ [][NextTransport]_vars
  /\ WF_vars(NextIngest)
  /\ WF_vars(MainLoop)

\* C12: once the port has failed the ingestion thread ends, after at most
\* one failed read, and the main loop ends as well: running becomes FALSE.
C12_FailureEndsRun ==
  /\ (serial = "failed") ~> (ing_pc \in {"died", "exited"})
  /\ (serial = "failed") ~> (running = FALSE)

\* C13: when run has closed the serial handle and returned, the ingestion
\* thread has left its loop: it is not about to poll or read the closed
\* handle and is not between the byte updates of a record.
C13_ShutdownStopsIngestion ==
  (serial = "closed" /\ main_pc = "done") => ing_pc = "exited"

(***************************************************************************)
(* calculate_temperature_values.  A character is its code point; a         *)
(* candidate is the tuple the code appends, (description, temp_c, temp_f,  *)
(* flag), the description kept as its format and the values it shows, and  *)
(* temp_c, a float in the code, as the fraction <<numerator, denominator>>.*)
(***************************************************************************)
Bytes == 0..255

\* '.'
Dot == 46

byte_to_ascii_display(byte_value) ==
  IF 32 <= byte_value /\ byte_value <= 126 THEN byte_value ELSE Dot

is_printable_ascii(byte_value) == 32 <= byte_value /\ byte_value <= 126

\* str.isdigit on one of the characters byte_to_ascii_display returns
isdigit(c) == 48 <= c /\ c <= 57

\* int(ascii_string) on two digits
IntOfDigits(c0, c1) == (c0 - 48) * 10 + (c1 - 48)

Whole(n) == <<n, 1>>

\* (temp_f - 32) * 5/9
ToCelsius(temp_f) == <<(temp_f - 32) * 5, 9>>

Candidate(desc, temp_c, temp_f, flag) ==
  [desc |-> desc, temp_c |-> temp_c, temp_f |-> temp_f, flag |-> flag]

\* GuessInRange with the upper edge left out
GuessBelowEdge(temp_f) == 32 <= temp_f /\ temp_f < 120

\* line 332: the filter of the single-byte guesses
GuessInRange(temp_f) == 32 <= temp_f /\ temp_f <= 120

\* lines 329-333: for offset in [0, 40, 50]
GuessOffsets == <<0, 40, 50>>

SingleByte(byte) ==
  LET guess(k) == Candidate(<<"GUESS", byte, GuessOffsets[k]>>,
                            ToCelsius(byte - GuessOffsets[k]),
                            byte - GuessOffsets[k], FALSE)
  IN << Candidate(<<"ASCII", <<byte_to_ascii_display(byte)>>, <<byte>>>>,
                  Whole(0), 0, FALSE) >>
     \o SelectSeq([k \in 1..Len(GuessOffsets) |-> guess(k)],
                  LAMBDA r : GuessInRange(r.temp_f))

\* DigitPair with position 84 left out of the linear range
DigitPairShort(position) ==
  IF position = 60
  THEN Candidate(<<"HVAC_LOW", position>>, Whole(10), 50, TRUE)
  ELSE IF position = 90
  THEN Candidate(<<"HVAC_HIGH", position>>, Whole(35), 95, TRUE)
  ELSE IF 65 <= position /\ position < 84
  THEN Candidate(<<"HVAC", position - 5, position>>,
                 ToCelsius(position - 5), position - 5, TRUE)
  ELSE Candidate(<<"POSITION", position>>, Whole(0), 0, TRUE)

\* lines 348-357: the Ford HVAC mapping of a two-digit position
DigitPair(position) ==
  IF position = 60
  THEN Candidate(<<"HVAC_LOW", position>>, Whole(10), 50, TRUE)
  ELSE IF position = 90
  THEN Candidate(<<"HVAC_HIGH", position>>, Whole(35), 95, TRUE)
  ELSE IF 65 <= position /\ position <= 84
  THEN Candidate(<<"HVAC", position - 5, position>>,
                 ToCelsius(position - 5), position - 5, TRUE)
  ELSE Candidate(<<"POSITION", position>>, Whole(0), 0, TRUE)

\* lines 368-370: the legacy formula
Legacy(byte0, byte1) ==
  LET temp_offset == (byte0 - 54) * 10 + (byte1 - 48)
  IN IF 0 <= temp_offset /\ temp_offset <= 30
     THEN <<Candidate(<<"LEGACY", temp_offset>>, Whole(0), 0, FALSE)>>
     ELSE <<>>

\* lines 373-383: of BE, LE and ADD only ADD yields a candidate
Additive(byte0, byte1) ==
  LET simple_add == byte0 + byte1
      temp_f == simple_add - 40
  IN IF simple_add < 200 /\ 32 <= temp_f /\ temp_f <= 120
     THEN <<Candidate(<<"ADD", simple_add>>, ToCelsius(temp_f), temp_f, FALSE)>>
     ELSE <<>>

TwoBytes(byte0, byte1) ==
  LET ascii0 == byte_to_ascii_display(byte0)
      ascii1 == byte_to_ascii_display(byte1)
  IN << Candidate(<<"ASCII", <<ascii0, ascii1>>, <<byte0, byte1>>>>,
                  Whole(0), 0, TRUE) >>
     \o (IF isdigit(ascii0) /\ isdigit(ascii1)
         THEN <<DigitPair(IntOfDigits(ascii0, ascii1))>>
         ELSE <<>>)
     \o (IF is_printable_ascii(byte0) /\ is_printable_ascii(byte1)
         THEN <<Candidate(<<"BOTH_PRINTABLE">>, Whole(0), 0, TRUE)>>
         ELSE IF is_printable_ascii(byte0) \/ is_printable_ascii(byte1)
         THEN <<Candidate(<<"ONE_PRINTABLE">>, Whole(0), 0, FALSE)>>
         ELSE <<>>)
     \o Legacy(byte0, byte1)
     \o Additive(byte0, byte1)

calculate_temperature_values(v1, v2) ==
  IF v2 = NoValue THEN SingleByte(v1) ELSE TwoBytes(v1, v2)

\* a call of calculate_temperature_values
Interpret ==
  /\ value1 # NoValue
  /\ results = <<>>
  /\ results' = calculate_temperature_values(value1, value2)
  /\ UNCHANGED <<value1, value2, running, serial, storeVars, ingVars,
                 mainVars>>

InitInterpret ==
  /\ InitObject
  /\ port = Lines
  /\ calibration_mode = FALSE
  /\ calibration_data = <<>>
  /\ value1 \in Bytes
  /\ value2 \in Bytes \cup {NoValue}
  /\ results = <<>>

NextInterpret == Interpret

SpecInterpret == InitInterpret /\ [][NextInterpret]_vars

\* the candidates of the digit-pair path
IsDigitPair(r) == r.desc[1] \in {"HVAC_LOW", "HVAC_HIGH", "HVAC", "POSITION"}

\* equality of fractions
SameFraction(q, num, den) == q[1] * den = num * q[2]

\* C14: for two bytes that are both ASCII digits ('0'..'9', 48..57) the
\* result holds exactly one digit-pair candidate, fixed by the two-digit
\* position p: p = 60 is LOW, 50 F, 10 C; p = 90 is HIGH, 95 F, 35 C;
\* 65 <= p <= 84 is p - 5 F with (F - 32) * 5/9 C; any other p is a position
\* candidate without temperature.  For any other two bytes there is none.
C14_DigitPairCandidate ==
  (results # <<>> /\ value2 # NoValue) =>
    LET pairs == SelectSeq(results, IsDigitPair)
        p == (value1 - 48) * 10 + (value2 - 48)
    IN IF value1 \in 48..57 /\ value2 \in 48..57
       THEN /\ Len(pairs) = 1
            /\ IF p = 60
               THEN /\ pairs[1].desc = <<"HVAC_LOW", 60>>
                    /\ pairs[1].temp_f = 50
                    /\ SameFraction(pairs[1].temp_c, 10, 1)
               ELSE IF p = 90
               THEN /\ pairs[1].desc = <<"HVAC_HIGH", 90>>
                    /\ pairs[1].temp_f = 95
                    /\ SameFraction(pairs[1].temp_c, 35, 1)
               ELSE IF 65 <= p /\ p <= 84
               THEN /\ pairs[1].desc = <<"HVAC", p - 5, p>>
                    /\ pairs[1].temp_f = p - 5
                    /\ SameFraction(pairs[1].temp_c, (p - 5 - 32) * 5, 9)
               ELSE /\ pairs[1].desc = <<"POSITION", p>>
                    /\ pairs[1].temp_f = 0
                    /\ SameFraction(pairs[1].temp_c, 0, 1)
       ELSE pairs = <<>>

\* bytes 0x36, 0x30: position 60, LOW, 50 F, 10 C
C14_Witness ==
  /\ value1 = 54
  /\ value2 = 48
  /\ Len(results) = 5
  /\ results[2].desc = <<"HVAC_LOW", 60>>
  /\ results[2].temp_f = 50

\* a candidate of the result with the given description
Emitted(desc) == \E k \in 1..Len(results) : results[k].desc = desc

ReportsTemperature(r) == r.temp_f # 0 \/ r.temp_c[1] # 0

\* C17: a single-byte guess value - offset, offset in {0, 40, 50}, is in the
\* result iff 32 <= value - offset <= 120; the legacy candidate iff
\* (byte0 - 0x36) * 10 + (byte1 - 0x30) is in 0..30; the additive candidate
\* iff byte0 + byte1 < 200 and 32 <= byte0 + byte1 - 40 <= 120; and every
\* candidate that reports a temperature reports 32..120 F.
C17_RangeFilters ==
  results # <<>> =>
    /\ value2 = NoValue =>
         \A offset \in {0, 40, 50} :
           /\ Emitted(<<"GUESS", value1, offset>>)
                <=> value1 - offset \in 32..120
           /\ \A k \in 1..Len(results) :
                results[k].desc = <<"GUESS", value1, offset>>
                  => results[k].temp_f = value1 - offset
    /\ value2 # NoValue =>
         LET legacy == (value1 - 54) * 10 + (value2 - 48)
             sum == value1 + value2
         IN /\ Emitted(<<"LEGACY", legacy>>) <=> legacy \in 0..30
            /\ Emitted(<<"ADD", sum>>) <=> (sum < 200 /\ sum - 40 \in 32..120)
            /\ \A k \in 1..Len(results) :
                 results[k].desc[1] = "LEGACY" => results[k].desc[2] = legacy
            /\ \A k \in 1..Len(results) :
                 results[k].desc[1] = "ADD"
                   => results[k].desc[2] = sum /\ results[k].temp_f = sum - 40
    /\ \A k \in 1..Len(results) :
         ReportsTemperature(results[k]) => results[k].temp_f \in 32..120

\* byte 160 alone: 160 - 0 is left out, 160 - 40 = 120 is the upper edge
C17_Witness ==
  /\ value1 = 160
  /\ value2 = NoValue
  /\ Len(results) = 3
  /\ results[2].temp_f = 120
  /\ results[3].temp_f = 110

\* the offsets of the record in flight that have been compared
Compared ==
  IF ing_pc = "compare" THEN 0..(byte_i - 1)
  ELSE IF ing_pc = "store" THEN 0..byte_i
  ELSE IF Applied THEN Offsets
  ELSE {}

\* C15: throughout the byte loop of a record, the offsets compared so far
\* that carry the record's time stamp are those where the record's byte
\* differs from the value stored before the record began, although the
\* offsets below the loop index already hold the record's bytes.
C15_ComparesAgainstPrior ==
  /\ {i \in Compared : change_times[can_id][i] = current_time}
       = {i \in Compared : byte_values[i] # pre_values[can_id][i]}
  /\ ing_pc \in {"compare", "store"} =>
       \A i \in 0..(byte_i - 1) : current_values[can_id][i] = byte_values[i]

\* offset 7 is compared while offset 6 of the live row is already overwritten
C15_Witness ==
  /\ ing_pc = "store"
  /\ byte_i = 7
  /\ pre_values[can_id][6] # 0
  /\ pre_values[can_id][6] # byte_values[6]
  /\ current_values[can_id][6] = byte_values[6]
  /\ pre_values[can_id][7] # 0
  /\ change_times[can_id][7] = current_time

\* the ingestion thread is between two records
BetweenRecords ==
  ing_pc \in {"while", "poll", "read", "sleep", "died", "exited"}

\* C16: whenever the ingestion thread is between two records,
\* total_messages is the number of parsed records whose bytes were written
\* to the store, whatever the main thread did to the selection meanwhile.
C16_CountsEveryRecord ==
  BetweenRecords => total_messages = nrec

\* the step of line 209 after which lines 212-229 log a combined value
LogsPair ==
  /\ ing_pc = "second"
  /\ ing_pc' = "combine"
  /\ can_id' = cell1'[1]
  /\ Combine(current_values'[cell1'[1]][cell1'[2]],
             current_values'[cell2'[1]][cell2'[2]]) # last_logged_combined'

\* C18: when the ingestion thread logs a combined value, two cells were
\* selected at its read of the first cell, and the pair it combines is the
\* selection as it stood at the read of the first cell or at the read of
\* the second cell.
C18_PairFromOneSelection ==
  [][LogsPair =>
       /\ first_partner # NoCell
       /\ \/ cell2' = first_partner
          \/ selected_cells[1] = cell1]_vars

====
